---- MODULE Spec2Model ----
(***************************************************************************)
(* Model of src/app3.0/src/utils/bluetooth.ts: the two connectToESP32      *)
(* implementations (pure-notify, lines 57-121, and notify-with-fallback,   *)
(* lines 167-236), their payload decoders, and the Web Bluetooth transport *)
(* they drive.  One behaviour is one call of connectToESP32.               *)
(***************************************************************************)
EXTENDS Integers, Sequences, FiniteSets, TLC

\* ------------------------------------------------------------------ bounds
MaxLen == 3            \* longest payload the peripheral sends in the model
MaxNullEvents == 2     \* value-changed events with no value, per call
MaxByte == 255         \* getUint8 yields an unsigned 8-bit integer

\* Byte values carried by payloads during an acquisition.
ByteVals == {17, 42}

\* ch.value === null / undefined
Null == <<-1>>

\* readValue() rejected
ReadFailed == <<-2>>

RECURSIVE SeqsOfLen(_)
SeqsOfLen(n) ==
  IF n = 0 THEN {<<>>}
  ELSE {Append(s, b) : s \in SeqsOfLen(n - 1), b \in ByteVals}

\* DataViews of every length 0..MaxLen
Buffers == UNION {SeqsOfLen(n) : n \in 0..MaxLen}

\* Inputs of the decoder: every 2-byte buffer, and buffers of the other lengths
DecoderInputs ==
  {<<m, e>> : m \in 0..MaxByte, e \in 0..MaxByte} \cup Buffers

\* ------------------------------------------------------------ SensorData
SensorData(pH, moisture, tds, nitrogen, phosphorus, potassium) ==
  [pH |-> pH, moisture |-> moisture, tds |-> tds, nitrogen |-> nitrogen,
   phosphorus |-> phosphorus, potassium |-> potassium]

NoReading == SensorData(-1, -1, -1, -1, -1, -1)

toSensorDataTdsFromMoisture(moisture, ec) ==
  SensorData(0, moisture, moisture, ec, ec, ec)

toSensorDataNeutralPh(moisture, ec) ==
  SensorData(65, moisture, ec, ec, ec, ec)

toSensorData(moisture, ec) ==
  SensorData(0, moisture, ec, ec, ec, ec)

bytesToSensorDataScaled(moisture, ec) ==
  SensorData(0, moisture, ec, ec * 2, ec, ec)

bytesToSensorData(moisture, ec) ==
  SensorData(0, moisture, ec, ec, ec, ec)

\* DataView.getUint8(i): the byte at offset i, unsigned
getUint8(value, i) == value[i + 1] % (MaxByte + 1)

Thrown == [ok |-> FALSE, moisture |-> -1, ec |-> -1]

parsePayloadSwapped(value) ==
  IF Len(value) # 2 THEN Thrown
  ELSE [ok |-> TRUE, moisture |-> getUint8(value, 1), ec |-> getUint8(value, 0)]

\* pure-notify variant: exactly 2 bytes
parsePayload(value) ==
  IF Len(value) # 2 THEN Thrown
  ELSE [ok |-> TRUE, moisture |-> getUint8(value, 0), ec |-> getUint8(value, 1)]

\* fallback variant: at least 2 bytes
parse2Bytes(value) ==
  IF Len(value) < 2 THEN Thrown
  ELSE [ok |-> TRUE, moisture |-> getUint8(value, 0), ec |-> getUint8(value, 1)]

\* --------------------------------------------------------------- outcomes
Pending ==
  [status |-> "pending", error |-> "none", stage |-> "none", cause |-> "none",
   reading |-> NoReading]

Resolved(r) ==
  [status |-> "resolved", error |-> "none", stage |-> "none", cause |-> "none",
   reading |-> r]

Rejected(err, stage) ==
  [status |-> "rejected", error |-> err, stage |-> stage, cause |-> "none",
   reading |-> NoReading]

VARIABLES
  variant,          \* which connectToESP32: "notify" (l.57) or "fallback" (l.167)
  hasBluetooth,     \* navigator.bluetooth is present
  disconnectThrows, \* the transport's disconnect() throws when called
  pc,               \* the await the call is suspended at
  connected,        \* device.gatt.connected
  handlerReg,       \* the characteristicvaluechanged listener is registered
  timerArmed,       \* the setTimeout timer is pending
  outcome,          \* settlement of the promise connectToESP32 returned
  primary,          \* the outcome computed before teardown ran
  raceWinner,       \* which callback decided the race: none / notify / timer
  wonPayload,       \* the payload of the notification that decided the race
  readVal,          \* what readValue() settled with
  decodeFailedAt,   \* where a decoder threw: none / notify / read
  connAtExit,       \* device.gatt.connected when the call left its last step
  calls,            \* counters of the calls made on the host and transport
  loserEffects,     \* effects of callbacks dispatched after the race was decided
  nullEvents,       \* value-changed events that carried no value
  decIn, decOut,    \* decoder under test: input buffer and what it returned
  reading,          \* the SensorData handed to the rule engine (pH in tenths)
  context,          \* the season and weather handed to the rule engine
  recOut            \* what the rule engine returned

vars ==
  <<variant, hasBluetooth, disconnectThrows, pc, connected, handlerReg,
    timerArmed, outcome, primary, raceWinner, wonPayload, readVal,
    decodeFailedAt, connAtExit, calls, loserEffects, nullEvents, decIn, decOut,
    reading, context, recOut>>

NoCalls ==
  [picker |-> 0, connect |-> 0, disconnect |-> 0, read |-> 0, settle |-> 0,
   uncaught |-> 0, lateCallbacks |-> 0]

Bump(c, f) == [c EXCEPT ![f] = @ + 1]

NoDecode == [parser |-> "none", ok |-> FALSE, reading |-> NoReading]

NoContext == [weather |-> "none", season |-> "none"]

NoRecommendation == [rule |-> -1, crops |-> <<>>]

IdleCall ==
  /\ pc = "start"
  /\ connected = FALSE
  /\ handlerReg = FALSE
  /\ timerArmed = FALSE
  /\ outcome = Pending
  /\ primary = Pending
  /\ raceWinner = "none"
  /\ wonPayload = Null
  /\ readVal = Null
  /\ decodeFailedAt = "none"
  /\ connAtExit = FALSE
  /\ calls = NoCalls
  /\ loserEffects = {}
  /\ nullEvents = 0

IdleEngine ==
  /\ reading = NoReading
  /\ context = NoContext
  /\ recOut = NoRecommendation

Idle ==
  /\ IdleCall
  /\ decIn = Null
  /\ decOut = NoDecode
  /\ IdleEngine

Init ==
  /\ variant \in {"notify", "fallback"}
  /\ hasBluetooth \in BOOLEAN
  /\ disconnectThrows = FALSE
  /\ Idle

\* The transport double whose disconnect() throws.
InitFaulty ==
  /\ variant \in {"notify", "fallback"}
  /\ hasBluetooth \in BOOLEAN
  /\ disconnectThrows = TRUE
  /\ Idle

RaceVars == <<raceWinner, wonPayload, readVal, decodeFailedAt, loserEffects, nullEvents>>
RuleVars == <<reading, context, recOut>>
DecVars == <<decIn, decOut, RuleVars>>
EnvVars == <<variant, hasBluetooth, disconnectThrows>>

\* ------------------------------------------------------------- primitives
\* The call ends with `out` and no teardown on the way: a throw or rejection
\* that no try/finally of the function encloses.
Exit(out) ==
  /\ pc' = "done"
  /\ outcome' = out
  /\ primary' = out
  /\ connAtExit' = connected
  /\ calls' = Bump(calls, "settle")
  /\ UNCHANGED connected

FinallyThenNoDisconnect(out) ==
  /\ pc' = "done"
  /\ primary' = out
  /\ connAtExit' = connected
  /\ outcome' = out
  /\ UNCHANGED connected
  /\ calls' = Bump(calls, "settle")

\* Fallback variant, l.229-235: the finally block runs, then the call settles.
\* An exception thrown by disconnect() inside finally replaces the completion.
FinallyThen(out) ==
  /\ pc' = "done"
  /\ primary' = out
  /\ connAtExit' = connected
  /\ IF connected
     THEN IF disconnectThrows
          THEN /\ outcome' = Rejected("TeardownError", "disconnect")
               /\ UNCHANGED connected
          ELSE /\ outcome' = out
               /\ connected' = FALSE
     ELSE /\ outcome' = out
          /\ UNCHANGED connected
  /\ calls' = [calls EXCEPT !.settle = @ + 1,
                            !.disconnect = @ + (IF connected THEN 1 ELSE 0)]

CleanupThenNeverSettles(out, runs) ==
  /\ timerArmed' = FALSE
  /\ handlerReg' = FALSE
  /\ primary' = out
  /\ connAtExit' = connected
  /\ calls' = [calls EXCEPT !.disconnect = @ + (IF connected THEN 1 ELSE 0)]
  /\ connected' = FALSE
  /\ UNCHANGED <<pc, outcome>>

\* Pure-notify variant, l.104-114 followed by resolve/reject: cleanup() runs
\* `runs` times (twice when it throws inside the handler's try and the catch
\* calls it again), and the promise is settled only if cleanup returned.
CleanupThen(out, runs) ==
  /\ timerArmed' = FALSE
  /\ handlerReg' = FALSE
  /\ primary' = out
  /\ connAtExit' = connected
  /\ IF connected /\ disconnectThrows
     THEN /\ calls' = [calls EXCEPT !.disconnect = @ + runs, !.uncaught = @ + 1]
          /\ UNCHANGED <<pc, outcome, connected>>
     ELSE /\ calls' = [calls EXCEPT !.settle = @ + 1,
                                    !.disconnect = @ + (IF connected THEN 1 ELSE 0)]
          /\ pc' = "done"
          /\ outcome' = out
          /\ connected' = FALSE

\* ---------------------------------------------------------------- actions
PlatformCheckPickerFirst ==
  /\ pc = "start"
  /\ IF ~hasBluetooth
     THEN /\ pc' = "done"
          /\ outcome' = Rejected("PlatformUnsupported", "none")
          /\ primary' = outcome'
          /\ connAtExit' = connected
          /\ calls' = [calls EXCEPT !.picker = @ + 1, !.settle = @ + 1]
          /\ UNCHANGED connected
     ELSE /\ pc' = "requestDevice"
          /\ calls' = Bump(calls, "picker")
          /\ UNCHANGED <<outcome, primary, connAtExit, connected>>
  /\ UNCHANGED <<handlerReg, timerArmed>>
  /\ UNCHANGED <<RaceVars, DecVars, EnvVars>>

\* l.58-67 / l.168-177
PlatformCheck ==
  /\ pc = "start"
  /\ IF ~hasBluetooth
     THEN Exit(Rejected("PlatformUnsupported", "none"))
     ELSE /\ pc' = "requestDevice"
          /\ calls' = Bump(calls, "picker")
          /\ UNCHANGED <<outcome, primary, connAtExit, connected>>
  /\ UNCHANGED <<handlerReg, timerArmed>>
  /\ UNCHANGED <<RaceVars, DecVars, EnvVars>>

\* l.64-71 / l.174-181: the picker settles; on a choice gatt.connect() is called
RequestDeviceSettles ==
  /\ pc = "requestDevice"
  /\ \E chosen \in BOOLEAN :
       IF chosen
       THEN /\ pc' = "connect"
            /\ calls' = Bump(calls, "connect")
            /\ UNCHANGED <<outcome, primary, connAtExit, connected>>
       ELSE Exit(Rejected("DeviceNotSelected", "none"))
  /\ UNCHANGED <<handlerReg, timerArmed>>
  /\ UNCHANGED <<RaceVars, DecVars, EnvVars>>

ConnectSettlesIgnoresFailure ==
  /\ pc = "connect"
  /\ \E ok \in BOOLEAN :
       /\ pc' = "getPrimaryService"
       /\ connected' = ok
       /\ UNCHANGED <<outcome, primary, connAtExit, calls>>
  /\ UNCHANGED <<handlerReg, timerArmed>>
  /\ UNCHANGED <<RaceVars, DecVars, EnvVars>>

\* l.71-74 / l.181-185: connect() is outside every try in both variants
ConnectSettles ==
  /\ pc = "connect"
  /\ \E ok \in BOOLEAN :
       IF ok
       THEN /\ pc' = "getPrimaryService"
            /\ connected' = TRUE
            /\ UNCHANGED <<outcome, primary, connAtExit, calls>>
       ELSE Exit(Rejected("TransportError", "connect"))
  /\ UNCHANGED <<handlerReg, timerArmed>>
  /\ UNCHANGED <<RaceVars, DecVars, EnvVars>>

\* A rejected await before the race: the pure-notify variant has no handler
\* for it, the fallback variant runs its finally block.
StageFails(stage) ==
  IF variant = "notify"
  THEN Exit(Rejected("TransportError", stage))
  ELSE FinallyThen(Rejected("TransportError", stage))

\* l.74 / l.185
GetPrimaryServiceSettles ==
  /\ pc = "getPrimaryService"
  /\ \E ok \in BOOLEAN :
       IF ok /\ connected
       THEN /\ pc' = "getCharacteristic"
            /\ UNCHANGED <<outcome, primary, connAtExit, calls, connected>>
       ELSE StageFails("getPrimaryService")
  /\ UNCHANGED <<handlerReg, timerArmed>>
  /\ UNCHANGED <<RaceVars, DecVars, EnvVars>>

\* l.75-79 / l.186-189
GetCharacteristicSettles ==
  /\ pc = "getCharacteristic"
  /\ \E ok \in BOOLEAN :
       IF ok /\ connected
       THEN /\ pc' = "startNotifications"
            /\ UNCHANGED <<outcome, primary, connAtExit, calls, connected>>
       ELSE StageFails("getCharacteristic")
  /\ UNCHANGED <<handlerReg, timerArmed>>
  /\ UNCHANGED <<RaceVars, DecVars, EnvVars>>

\* l.79-120 / l.189-216: once subscribed, the timer is started and the
\* listener added in the same synchronous run, then the call awaits.
StartNotificationsSettles ==
  /\ pc = "startNotifications"
  /\ \E ok \in BOOLEAN :
       IF ok /\ connected
       THEN /\ pc' = "racing"
            /\ handlerReg' = TRUE
            /\ timerArmed' = TRUE
            /\ UNCHANGED <<outcome, primary, connAtExit, calls, connected>>
       ELSE /\ StageFails("startNotifications")
            /\ UNCHANGED <<handlerReg, timerArmed>>
  /\ UNCHANGED <<RaceVars, DecVars, EnvVars>>

\* A callback dispatched after the race was decided: its effects are recorded.
Late(effects) ==
  /\ calls' = [calls EXCEPT !.lateCallbacks = @ + 1,
                            !.uncaught = @ + (IF "raise" \in effects THEN 1 ELSE 0)]
  /\ loserEffects' = loserEffects \cup effects

\* l.88-102: handler of the pure-notify variant
HandlerNotify(p) ==
  LET parsed == parsePayload(p) IN
  /\ raceWinner' = "notify"
  /\ wonPayload' = p
  /\ IF parsed.ok
     THEN /\ CleanupThen(Resolved(toSensorData(parsed.moisture, parsed.ec)), 2)
          /\ UNCHANGED decodeFailedAt
     ELSE /\ CleanupThen(Rejected("InvalidPayload", "notify"), 1)
          /\ decodeFailedAt' = "notify"
  /\ UNCHANGED <<readVal, loserEffects, nullEvents>>

\* l.193-207 and the continuation l.216-220, 229-235: handler of the fallback
\* variant.  It resolves notifPromise; a throw leaves the handler as an
\* uncaught exception of the event dispatch and settles nothing.
HandlerFallback(p) ==
  LET parsed == parse2Bytes(p) IN
  /\ handlerReg' = FALSE
  /\ UNCHANGED <<timerArmed, readVal, nullEvents>>
  /\ IF pc = "racing"
     THEN IF parsed.ok
          THEN /\ raceWinner' = "notify"
               /\ wonPayload' = p
               /\ FinallyThen(Resolved(bytesToSensorData(parsed.moisture, parsed.ec)))
               /\ UNCHANGED <<decodeFailedAt, loserEffects>>
          ELSE /\ decodeFailedAt' = "notify"
               /\ calls' = Bump(calls, "uncaught")
               /\ UNCHANGED <<pc, connected, outcome, primary, connAtExit,
                              raceWinner, wonPayload, loserEffects>>
     ELSE /\ Late(IF parsed.ok THEN {} ELSE {"raise"})
          /\ decodeFailedAt' =
               IF parsed.ok \/ decodeFailedAt # "none" THEN decodeFailedAt ELSE "notify"
          /\ UNCHANGED <<pc, connected, outcome, primary, connAtExit,
                         raceWinner, wonPayload>>

NotificationNullUnregisters ==
  /\ handlerReg
  /\ connected
  /\ \E p \in Buffers \cup {Null} :
       IF p = Null
       THEN /\ nullEvents < MaxNullEvents
            /\ nullEvents' = nullEvents + 1
            /\ handlerReg' = FALSE
            /\ UNCHANGED <<pc, connected, timerArmed, outcome, primary,
                           raceWinner, wonPayload, readVal, decodeFailedAt,
                           connAtExit, calls, loserEffects>>
       ELSE IF variant = "notify" THEN HandlerNotify(p) ELSE HandlerFallback(p)
  /\ UNCHANGED <<DecVars, EnvVars>>

\* A characteristicvaluechanged event is dispatched to the registered handler.
Notification ==
  /\ handlerReg
  /\ connected
  /\ \E p \in Buffers \cup {Null} :
       IF p = Null
       THEN \* l.90 / l.195: if (!ch.value) return;
            /\ nullEvents < MaxNullEvents
            /\ nullEvents' = nullEvents + 1
            /\ UNCHANGED <<pc, connected, handlerReg, timerArmed, outcome, primary,
                           raceWinner, wonPayload, readVal, decodeFailedAt,
                           connAtExit, calls, loserEffects>>
       ELSE IF variant = "notify" THEN HandlerNotify(p) ELSE HandlerFallback(p)
  /\ UNCHANGED <<DecVars, EnvVars>>

\* l.83-86: cleanup(); reject(...)   /   l.212-224: resolve("timeout"), and
\* when that decides Promise.race the continuation calls readValue().
TimerFires ==
  /\ timerArmed
  /\ IF variant = "notify"
     THEN /\ raceWinner' = "timer"
          /\ CleanupThen(Rejected("NoDataReceived", "none"), 1)
          /\ UNCHANGED loserEffects
     ELSE /\ timerArmed' = FALSE
          /\ IF pc = "racing"
             THEN /\ raceWinner' = "timer"
                  /\ pc' = "readValue"
                  /\ calls' = Bump(calls, "read")
                  /\ UNCHANGED loserEffects
             ELSE /\ Late({})
                  /\ UNCHANGED <<pc, raceWinner>>
          /\ UNCHANGED <<handlerReg, connected, outcome, primary, connAtExit>>
  /\ UNCHANGED <<wonPayload, readVal, decodeFailedAt, nullEvents>>
  /\ UNCHANGED <<DecVars, EnvVars>>

\* l.224-235: readValue() settles; parse2Bytes; return or throw through finally
ReadValueSettles ==
  /\ pc = "readValue"
  /\ \E v \in Buffers \cup {ReadFailed} :
       /\ v # ReadFailed => connected
       /\ readVal' = v
       /\ IF v = ReadFailed
          THEN /\ FinallyThen(Rejected("TransportError", "readValue"))
               /\ UNCHANGED decodeFailedAt
          ELSE LET parsed == parse2Bytes(v) IN
               IF parsed.ok
               THEN /\ FinallyThen(Resolved(bytesToSensorData(parsed.moisture, parsed.ec)))
                    /\ UNCHANGED decodeFailedAt
               ELSE /\ FinallyThen(Rejected("InvalidPayload", "readValue"))
                    /\ decodeFailedAt' = "read"
  /\ UNCHANGED <<handlerReg, timerArmed, raceWinner, wonPayload, loserEffects, nullEvents>>
  /\ UNCHANGED <<DecVars, EnvVars>>

\* The peripheral drops the link: device.gatt.connected becomes false.
LinkLost ==
  /\ connected
  /\ pc # "done"
  /\ connected' = FALSE
  /\ UNCHANGED <<pc, handlerReg, timerArmed, outcome, primary, connAtExit, calls>>
  /\ UNCHANGED <<RaceVars, DecVars, EnvVars>>

Next ==
  \/ PlatformCheck
  \/ RequestDeviceSettles
  \/ ConnectSettles
  \/ GetPrimaryServiceSettles
  \/ GetCharacteristicSettles
  \/ StartNotificationsSettles
  \/ Notification
  \/ TimerFires
  \/ ReadValueSettles
  \/ LinkLost

Spec == Init /\ [][Next]_vars

\* The same call against a transport whose disconnect() throws.
SpecFaulty == InitFaulty /\ [][Next]_vars

\* The event loop runs a timer that is due, and a readValue() that was started
\* settles: the two assumptions under which the call must terminate.
SpecLive ==
  /\ Init
  /\ [][Next]_vars
  /\ WF_vars(TimerFires)
  /\ WF_vars(ReadValueSettles)

\* ------------------------------------------------------- decoder under test
InitDecoder ==
  /\ variant = "notify"
  /\ hasBluetooth = TRUE
  /\ disconnectThrows = FALSE
  /\ IdleCall
  /\ decIn \in DecoderInputs
  /\ decOut = NoDecode
  /\ IdleEngine

CallVars ==
  <<pc, connected, handlerReg, timerArmed, outcome, primary, connAtExit, calls>>

\* l.93, l.97: parsePayload then toSensorData
DecodeNotify ==
  /\ decOut.parser = "none"
  /\ LET parsed == parsePayload(decIn) IN
       decOut' = [parser |-> "parsePayload", ok |-> parsed.ok,
                  reading |-> IF parsed.ok
                              THEN toSensorData(parsed.moisture, parsed.ec)
                              ELSE NoReading]
  /\ UNCHANGED <<decIn, RuleVars, CallVars, RaceVars, EnvVars>>

\* l.198, l.202 and l.225, l.228: parse2Bytes then bytesToSensorData
DecodeFallback ==
  /\ decOut.parser = "none"
  /\ LET parsed == parse2Bytes(decIn) IN
       decOut' = [parser |-> "parse2Bytes", ok |-> parsed.ok,
                  reading |-> IF parsed.ok
                              THEN bytesToSensorData(parsed.moisture, parsed.ec)
                              ELSE NoReading]
  /\ UNCHANGED <<decIn, RuleVars, CallVars, RaceVars, EnvVars>>

NextDecoder ==
  \/ DecodeNotify
  \/ DecodeFallback

SpecDecoder == InitDecoder /\ [][NextDecoder]_vars

\* ------------------------------------------------------------ rule engine
\* APP_CONFIG.seasons and APP_CONFIG.weatherOptions (values)
Seasons == {"rabi", "kharif", "zaid"}
Weathers == {"sunny", "cloudy", "rainy", "windy", "humid", "foggy"}

Contexts == [weather : Weathers, season : Seasons]

Rule(crops, conditions) == [crops |-> crops, conditions |-> conditions]

WheatRule ==
  Rule(<<"Wheat", "Maize", "Corn">>,
       [pHMin |-> 60, pHMax |-> 85, nMin |-> 50, pMin |-> 30, kMin |-> 50,
        dominantWeather |-> {"sunny", "cloudy"}, season |-> {"rabi", "kharif"}])

RiceRule ==
  Rule(<<"Rice", "Paddy">>,
       [pHMin |-> 55, pHMax |-> 75, moistureMin |-> 50, nMin |-> 40, pMin |-> 25,
        kMin |-> 40, dominantWeather |-> {"rainy", "humid"}, season |-> {"kharif"}])

ChickpeaRule ==
  Rule(<<"Chickpea", "Lentil", "Peas">>,
       [pHMin |-> 60, pHMax |-> 80, nMin |-> 20, pMin |-> 25, kMin |-> 25,
        dominantWeather |-> {"cloudy", "windy", "sunny"}, season |-> {"rabi"}])

CottonRule ==
  Rule(<<"Cotton", "Soybean">>,
       [pHMin |-> 60, pHMax |-> 80, nMin |-> 45, pMin |-> 30, kMin |-> 45,
        dominantWeather |-> {"sunny", "humid"}, season |-> {"kharif"}])

\* The phosphorus bound of this rule is keyed pMIn in the source.
SugarcaneRule ==
  Rule(<<"Sugarcane">>,
       [pHMin |-> 60, pHMax |-> 85, nMin |-> 65, pMIn |-> 40, kMin |-> 65,
        moistureMin |-> 50, dominantWeather |-> {"sunny", "humid", "rainy"}])

SugarcaneRulePMin ==
  Rule(<<"Sugarcane">>,
       [pHMin |-> 60, pHMax |-> 85, nMin |-> 65, pMin |-> 40, kMin |-> 65,
        moistureMin |-> 50, dominantWeather |-> {"sunny", "humid", "rainy"}])

PotatoRule ==
  Rule(<<"Potato", "Vegetables">>,
       [pHMin |-> 55, pHMax |-> 70, nMin |-> 40, pMin |-> 35, kMin |-> 40,
        dominantWeather |-> {"cloudy", "sunny"}, season |-> {"rabi", "zaid"}])

CropRulesWheatAnyWeather ==
  <<Rule(<<"Wheat", "Maize", "Corn">>,
         [pHMin |-> 60, pHMax |-> 85, nMin |-> 50, pMin |-> 30, kMin |-> 50,
          season |-> {"rabi", "kharif"}]),
    RiceRule, ChickpeaRule, CottonRule, SugarcaneRule, PotatoRule>>

CropRulesCottonFirst ==
  <<CottonRule, WheatRule, RiceRule, ChickpeaRule, SugarcaneRule, PotatoRule>>

CropRulesSugarcanePMin ==
  <<WheatRule, RiceRule, ChickpeaRule, CottonRule, SugarcaneRulePMin, PotatoRule>>

\* CROP_RECOMMENDATIONS.rules, in declared order; pH bounds in tenths
CropRules ==
  <<WheatRule, RiceRule, ChickpeaRule, CottonRule, SugarcaneRule, PotatoRule>>

DefaultCropsUnderCropsKey == <<>>

\* CROP_RECOMMENDATIONS.default.cropsEn
DefaultCrops == <<"General Crops", "Vegetables">>

\* A bound the rule carries under the name the engine looks up.
Has(c, key) == key \in DOMAIN c

\* A rule matches iff every bound it carries under a recognized name holds:
\* numeric bounds inclusive, weather and season by membership.
Matches(c, r, ctx) ==
  /\ Has(c, "pHMin") => r.pH >= c.pHMin
  /\ Has(c, "pHMax") => r.pH <= c.pHMax
  /\ Has(c, "nMin") => r.nitrogen >= c.nMin
  /\ Has(c, "pMin") => r.phosphorus >= c.pMin
  /\ Has(c, "kMin") => r.potassium >= c.kMin
  /\ Has(c, "moistureMin") => r.moisture >= c.moistureMin
  /\ Has(c, "dominantWeather") => ctx.weather \in c.dominantWeather
  /\ Has(c, "season") => ctx.season \in c.season

\* Index of the first rule from i on that matches, 0 when none does.
RECURSIVE FirstMatch(_, _, _)
FirstMatch(i, r, ctx) ==
  IF i > Len(CropRules) THEN 0
  ELSE IF Matches(CropRules[i].conditions, r, ctx) THEN i
  ELSE FirstMatch(i + 1, r, ctx)

recommend(r, ctx) ==
  LET i == FirstMatch(1, r, ctx) IN
  [rule |-> i, crops |-> IF i = 0 THEN DefaultCrops ELSE CropRules[i].crops]

\* Readings on and around every bound of the rule table (pH in tenths).
RuleReadings ==
  {SensorData(pH, m, n, n, p, k) :
     pH \in {0, 54, 55, 60, 65, 70, 75, 80, 85, 86},
     m \in {49, 50, 55},
     n \in {19, 20, 40, 45, 50, 60, 65, 70},
     p \in {24, 25, 30, 35, 39, 40},
     k \in {24, 25, 40, 45, 50, 55, 65, 70}}

InitRules ==
  /\ variant = "notify"
  /\ hasBluetooth = TRUE
  /\ disconnectThrows = FALSE
  /\ IdleCall
  /\ decIn = Null
  /\ decOut = NoDecode
  /\ reading \in RuleReadings
  /\ context \in Contexts
  /\ recOut = NoRecommendation

Recommend ==
  /\ reading # NoReading
  /\ recOut = NoRecommendation
  /\ recOut' = recommend(reading, context)
  /\ UNCHANGED <<reading, context, decIn, decOut, CallVars, RaceVars, EnvVars>>

NextRules == Recommend

SpecRules == InitRules /\ [][NextRules]_vars

\* ---------------------------------------------- decoder feeding the engine
\* Moisture bytes around the moisture bound, every EC byte.
PipelinePayloads ==
  {<<m, e>> : m \in {0, 49, 50, 55, 100, MaxByte}, e \in 0..MaxByte}

InitPipeline ==
  /\ variant = "notify"
  /\ hasBluetooth = TRUE
  /\ disconnectThrows = FALSE
  /\ IdleCall
  /\ decIn \in PipelinePayloads
  /\ decOut = NoDecode
  /\ reading = NoReading
  /\ context \in Contexts
  /\ recOut = NoRecommendation

\* The decoded SensorData is handed to the rule engine as it is.
PassReading ==
  /\ decOut.ok
  /\ reading = NoReading
  /\ reading' = decOut.reading
  /\ UNCHANGED <<context, recOut, decIn, decOut, CallVars, RaceVars, EnvVars>>

NextPipeline ==
  \/ DecodeNotify
  \/ DecodeFallback
  \/ PassReading
  \/ Recommend

SpecPipeline == InitPipeline /\ [][NextPipeline]_vars

\* ------------------------------------------------------------------ claims
\* The reading the specification assigns to the 2-byte payload [m, e].
Decoding(b) == SensorData(0, b[1], b[2], b[2], b[2], b[2])

\* C1: whichever of the notification and the timer comes second, the call
\* settles once, disconnects at most once, and the callback dispatched after
\* the race was decided has no effect: it raises nothing and settles nothing.
C1_AtMostOneResolution ==
  /\ calls.settle <= 1
  /\ calls.disconnect <= 1
  /\ loserEffects = {}
  /\ (raceWinner # "none" /\ pc = "done") => outcome = primary

\* C2: in every terminal state disconnect() was invoked exactly when the
\* transport was connected on the way out, at most once, and the transport is
\* no longer connected.
C2_TeardownIffConnected ==
  pc = "done" =>
    /\ calls.disconnect <= 1
    /\ (calls.disconnect = 1) <=> connAtExit
    /\ ~connected

\* C3: when a valid (2-byte) notification decides the race, the call resolves
\* with the decoding of that payload and readValue() is never invoked.
C3_NotifyWinsNoRead ==
  (raceWinner = "notify" /\ Len(wonPayload) = 2) =>
    /\ pc = "done"
    /\ outcome = Resolved(Decoding(wonPayload))
    /\ calls.read = 0

C3_Witness ==
  /\ raceWinner = "notify"
  /\ wonPayload = <<42, 17>>
  /\ outcome.status = "resolved"
  /\ ~timerArmed

\* C4 as stated: when the timer decides the race readValue() is invoked exactly
\* once and its decoded value is the result; readValue() is invoked only when
\* the timer won.
C4_TimeoutReadsOnce ==
  /\ raceWinner = "timer" => calls.read = 1
  /\ calls.read > 0 => raceWinner = "timer"
  /\ (raceWinner = "timer" /\ pc = "done" /\ Len(readVal) = 2) =>
       outcome = Resolved(Decoding(readVal))

\* C4 amended: in the notify-with-fallback variant the timer deciding the race
\* invokes readValue() exactly once, a 2-byte value it returns is decoded into
\* the result, and readValue() is invoked only when the timer won; in the
\* pure-notify variant readValue() is never invoked and the timeout rejects
\* with "No data received".
C4_TimeoutReadsOnceInFallbackVariant ==
  /\ (variant = "fallback" /\ raceWinner = "timer") => calls.read = 1
  /\ calls.read > 0 => (variant = "fallback" /\ raceWinner = "timer")
  /\ (variant = "fallback" /\ raceWinner = "timer" /\ pc = "done" /\ Len(readVal) = 2) =>
       outcome = Resolved(Decoding(readVal))
  /\ (variant = "notify" /\ raceWinner = "timer") =>
       /\ calls.read = 0
       /\ pc = "done"
       /\ outcome = Rejected("NoDataReceived", "none")

C4_Witness ==
  /\ variant = "fallback"
  /\ raceWinner = "timer"
  /\ pc = "done"
  /\ readVal = <<42, 17>>
  /\ outcome.status = "resolved"
  /\ calls.read = 1

\* C5: once a decoder has thrown, on a notification or on the fallback read,
\* the call is over: rejected with the invalid-payload error, transport
\* disconnected, and no fallback read follows a notification's decode failure.
C5_DecodeFailureFailsFast ==
  decodeFailedAt # "none" =>
    /\ pc = "done"
    /\ outcome.status = "rejected"
    /\ outcome.error = "InvalidPayload"
    /\ ~connected
    /\ decodeFailedAt = "notify" => calls.read = 0

\* C6: either decoder accepts a buffer if and only if its length is exactly 2.
C6_DecoderStrictLength ==
  decOut.parser # "none" => (decOut.ok <=> Len(decIn) = 2)

\* C7: either decoder maps the 2-byte payload [m, e] to moisture m, tds =
\* nitrogen = phosphorus = potassium = e and pH 0, unscaled.
C7_DecoderMapping ==
  (decOut.parser # "none" /\ Len(decIn) = 2) =>
    /\ decOut.ok
    /\ decOut.reading.pH = 0
    /\ decOut.reading.moisture = decIn[1]
    /\ decOut.reading.tds = decIn[2]
    /\ decOut.reading.nitrogen = decIn[2]
    /\ decOut.reading.phosphorus = decIn[2]
    /\ decOut.reading.potassium = decIn[2]

C7_Witness ==
  /\ decOut.parser = "parsePayload"
  /\ decIn = <<255, 200>>
  /\ decOut.reading.moisture = 255
  /\ decOut.reading.potassium = 200

\* C8: once the primary outcome is computed and teardown has run, the call is
\* settled with exactly that outcome, also when disconnect() throws.
C8_TeardownNeverMasks ==
  primary # Pending => (pc = "done" /\ outcome = primary)

C10_PlatformCheckFailsFast ==
  /\ ~hasBluetooth =>
       /\ calls.picker = 0
       /\ calls.connect = 0
       /\ ~connected /\ ~handlerReg /\ ~timerArmed
       /\ pc \in {"start", "done"}
       /\ pc = "done" => outcome = Rejected("PlatformUnsupported", "none")
  /\ outcome.error = "DeviceNotSelected" =>
       /\ pc = "done"
       /\ calls.picker = 1
       /\ calls.connect = 0
       /\ ~connected

C10_Witness ==
  /\ ~hasBluetooth
  /\ pc = "done"
  /\ outcome.error = "PlatformUnsupported"

\* C11: teardown unregisters the handler: no handler is left registered in a
\* terminal state, nor once the timer has won the race.
C11_HandlerReleased ==
  /\ pc = "done" => ~handlerReg
  /\ raceWinner = "timer" => ~handlerReg

\* The awaits of connectToESP32 in program order, up to the race.
StageOrder ==
  <<"start", "requestDevice", "connect", "getPrimaryService",
    "getCharacteristic", "startNotifications", "racing">>

\* C16: the call moves from one stage only to the next one in program order or
\* to its end; a stage past connect is entered only with the connection its
\* predecessor opened; the picker and connect() are called only in their own
\* stage, and the handler and the timer are set up only on leaving a
\* successful startNotifications().
C16_StageOrdering ==
  [][ /\ pc' # pc =>
           \/ pc' = "done"
           \/ pc = "racing" /\ pc' = "readValue"
           \/ \E i \in 1..(Len(StageOrder) - 1) :
                /\ pc = StageOrder[i]
                /\ pc' = StageOrder[i + 1]
                /\ i >= 3 => connected'
      /\ calls'.picker # calls.picker => (pc = "start" /\ pc' = "requestDevice")
      /\ calls'.connect # calls.connect => (pc = "requestDevice" /\ pc' = "connect")
      /\ ((handlerReg' /\ ~handlerReg) \/ (timerArmed' /\ ~timerArmed)) =>
           (pc = "startNotifications" /\ pc' = "racing" /\ connected)
    ]_vars

C16_Witness ==
  /\ pc = "racing"
  /\ handlerReg /\ timerArmed /\ connected
  /\ calls.picker = 1 /\ calls.connect = 1
  /\ outcome = Pending

\* C18: a value-changed event without a value changes nothing but the count of
\* such events: the call stays where it was, pending while racing, with the
\* handler registered, the timer as it was and no teardown or disconnect.
C18_NullEventIgnored ==
  [][ nullEvents' # nullEvents =>
        /\ UNCHANGED <<pc, outcome, primary, handlerReg, timerArmed, connected,
                       calls, raceWinner, wonPayload, readVal, decodeFailedAt>>
        /\ handlerReg'
        /\ pc = "racing" => (timerArmed' /\ outcome' = Pending /\ calls'.disconnect = 0)
    ]_vars

C18_Witness ==
  /\ nullEvents >= 1
  /\ pc = "done"
  /\ raceWinner = "notify"
  /\ Len(wonPayload) = 2
  /\ outcome = Resolved(Decoding(wonPayload))

RiceScenario ==
  /\ reading = SensorData(65, 55, reading.tds, 60, 35, 55)
  /\ context = [weather |-> "rainy", season |-> "kharif"]

\* C12: pH 6.5, moisture 55, N 60, P 35, K 55 under rainy weather in kharif is
\* rejected by the Wheat rule, matches the Rice rule, and is recommended
\* exactly Rice, Paddy.
C12_RiceScenario ==
  (RiceScenario /\ recOut # NoRecommendation) =>
    /\ ~Matches(CropRules[1].conditions, reading, context)
    /\ Matches(CropRules[2].conditions, reading, context)
    /\ recOut.rule = 2
    /\ recOut.crops = <<"Rice", "Paddy">>

C12_Witness ==
  /\ RiceScenario
  /\ recOut.crops = <<"Rice", "Paddy">>

\* A reading and context inside both the Wheat and the Cotton rule.
WheatAndCottonInput ==
  /\ reading.pH >= 60 /\ reading.pH <= 80
  /\ reading.nitrogen >= 50 /\ reading.phosphorus >= 30 /\ reading.potassium >= 50
  /\ context = [weather |-> "sunny", season |-> "kharif"]

\* C13: the result is the crop set of the lowest-indexed matching rule, never
\* a later rule's; an input inside both the Wheat and the Cotton rule gets the
\* Wheat crop set.
C13_FirstMatchWins ==
  recOut # NoRecommendation =>
    /\ \A i \in 1..Len(CropRules) :
         ( /\ Matches(CropRules[i].conditions, reading, context)
           /\ \A j \in 1..(i - 1) : ~Matches(CropRules[j].conditions, reading, context) )
         => (recOut.rule = i /\ recOut.crops = CropRules[i].crops)
    /\ WheatAndCottonInput => recOut.crops = <<"Wheat", "Maize", "Corn">>

C13_Witness ==
  /\ WheatAndCottonInput
  /\ Matches(CottonRule.conditions, reading, context)
  /\ Matches(WheatRule.conditions, reading, context)
  /\ recOut.crops = <<"Wheat", "Maize", "Corn">>

\* C14: the result is the default crop set, General Crops and Vegetables,
\* exactly when no rule of the table matches the input.
C14_DefaultIffNoMatch ==
  recOut # NoRecommendation =>
    ( (\A i \in 1..Len(CropRules) : ~Matches(CropRules[i].conditions, reading, context))
      <=> (recOut.rule = 0 /\ recOut.crops = <<"General Crops", "Vegetables">>) )

C14_Witness ==
  /\ recOut.rule = 0
  /\ recOut.crops = <<"General Crops", "Vegetables">>
  /\ reading.pH = 65
  /\ context.weather = "foggy"

\* A reading inside the Sugarcane rule's recognized bounds, phosphorus aside.
SugarcaneInput ==
  /\ reading.pH >= 60 /\ reading.pH <= 85
  /\ reading.nitrogen >= 65 /\ reading.potassium >= 65 /\ reading.moisture >= 50
  /\ context.weather \in {"sunny", "humid", "rainy"}

\* C15: the Sugarcane rule does not constrain phosphorus: an input inside its
\* other bounds that no earlier rule matches is recommended Sugarcane whatever
\* its phosphorus, as is pH 6.5, N 70, K 70, moisture 55, rainy, zaid.
C15_SugarcaneIgnoresPhosphorus ==
  recOut # NoRecommendation =>
    /\ ( /\ SugarcaneInput
         /\ \A j \in 1..4 : ~Matches(CropRules[j].conditions, reading, context) )
       => recOut.crops = <<"Sugarcane">>
    /\ ( /\ reading.pH = 65 /\ reading.nitrogen = 70 /\ reading.potassium = 70
         /\ reading.moisture = 55
         /\ context = [weather |-> "rainy", season |-> "zaid"] )
       => recOut.crops = <<"Sugarcane">>

C15_Witness ==
  /\ reading.pH = 65 /\ reading.nitrogen = 70 /\ reading.potassium = 70
  /\ reading.moisture = 55
  /\ reading.phosphorus = 24
  /\ context = [weather |-> "rainy", season |-> "zaid"]
  /\ recOut.crops = <<"Sugarcane">>

\* C17: a reading that comes out of either decoder and goes unchanged into the
\* rule engine matches no rule: the recommendation is the default crop set for
\* every payload, season and weather.
C17_DecodedReadingGetsDefault ==
  (recOut # NoRecommendation /\ decOut.ok) =>
    /\ reading = decOut.reading
    /\ recOut.rule = 0
    /\ recOut.crops = <<"General Crops", "Vegetables">>

C17_Witness ==
  /\ decIn = <<55, 70>>
  /\ decOut.parser = "parsePayload"
  /\ reading.nitrogen = 70
  /\ context = [weather |-> "rainy", season |-> "kharif"]
  /\ recOut.rule = 0

====
